---- MODULE Spec2Model ----
(***************************************************************************)
(* Model of the HTTP/1.1 framing and routing layer of the server: the      *)
(* header table, ParseRequest, Response.String, the Router and             *)
(* handleConnection, as they stand in the latest revision of main.go and   *)
(* http.go.                                                                *)
(*                                                                         *)
(* A Go string is a sequence of bytes; a byte is written as a string of    *)
(* one character.  The bytes "0xC3" and "0xA9" stand for the two bytes of  *)
(* a two-byte UTF-8 character.  A Go pointer is a sequence of length 0     *)
(* (nil) or 1 (the value pointed to).                                      *)
(***************************************************************************)
EXTENDS Integers, Sequences, FiniteSets, TLC

VARIABLES
    routes,          \* Router.routes, in registration order
    FILE_DIRECTORY,  \* the package-level storage root
    files,           \* the file system below the root: path -> content
    panicked,        \* the process died of an unrecovered panic
    mainpc,          \* main: "register" before the accept loop, then "serve"
    inbound,         \* per connection: the bytes the peer sends before it ends the stream
    pos,             \* per connection: bytes ParseRequest has consumed from the reader
    pc,              \* per connection: position of handleConnection
    plocal,          \* per connection: ParseRequest's local req when it left
    req,             \* per connection: the *Request ParseRequest returned
    perr,            \* per connection: the error ParseRequest returned
    res,             \* per connection: the *Response Route returned
    invoked,         \* per connection: indices of the routes whose handler ran
    wire,            \* per connection: the argument of each conn.Write call
    out,             \* per connection: the bytes that reached the peer
    logs,            \* per connection: what handleConnection printed
    closed,          \* per connection: the socket is closed
    hist,            \* per connection: the Headers.Set calls made on the response
    opened           \* per connection: the paths handed to os.ReadFile and os.WriteFile

vars ==
    <<routes, FILE_DIRECTORY, files, panicked, mainpc, inbound, pos, pc, plocal,
      req, perr, res, invoked, wire, out, logs, closed, hist, opened>>

----------------------------------------------------------------------------
(* Bytes and string constants of the program *)

SP == " "

CR == "\r"

LF == "\n"

CRLF == <<CR, LF>>

Upper ==
    <<"A","B","C","D","E","F","G","H","I","J","K","L","M",
      "N","O","P","Q","R","S","T","U","V","W","X","Y","Z">>

Lower ==
    <<"a","b","c","d","e","f","g","h","i","j","k","l","m",
      "n","o","p","q","r","s","t","u","v","w","x","y","z">>

Digits == <<"0","1","2","3","4","5","6","7","8","9">>

sContentLength == <<"C","o","n","t","e","n","t","-","L","e","n","g","t","h">>

sContentType == <<"C","o","n","t","e","n","t","-","T","y","p","e">>

sUserAgent == <<"U","s","e","r","-","A","g","e","n","t">>

sTextPlain == <<"t","e","x","t","/","p","l","a","i","n">>

sOctetStream ==
    <<"a","p","p","l","i","c","a","t","i","o","n","/",
      "o","c","t","e","t","-","s","t","r","e","a","m">>

sHTTP11 == <<"H","T","T","P","/","1",".","1">>

sOK == <<"O","K">>

sCreated == <<"C","r","e","a","t","e","d">>

sNotFound == <<"N","o","t"," ","F","o","u","n","d">>

sInternalServerError ==
    <<"I","n","t","e","r","n","a","l"," ","S","e","r","v","e","r"," ",
      "E","r","r","o","r">>

sPOST == <<"P","O","S","T">>

sRoot == <<"/">>

sUserAgentPath == <<"/","u","s","e","r","-","a","g","e","n","t">>

sEchoPrefix == <<"/","e","c","h","o","/">>

sFilesPrefix == <<"/","f","i","l","e","s","/">>

sTmp == <<"/","t","m","p","/">>

----------------------------------------------------------------------------
(* The library functions the program calls, computed as the library does *)

\* strings.Index: the 1-based index of the first occurrence of sep in s, 0 if none
Index(s, sep) ==
    LET hits == {i \in 1..(Len(s) - Len(sep) + 1) : SubSeq(s, i, i + Len(sep) - 1) = sep}
    IN  IF hits = {} THEN 0 ELSE CHOOSE i \in hits : \A j \in hits : i <= j

\* strings.HasPrefix
HasPrefix(s, prefix) ==
    Len(s) >= Len(prefix) /\ SubSeq(s, 1, Len(prefix)) = prefix

\* strings.TrimPrefix
TrimPrefix(s, prefix) ==
    IF HasPrefix(s, prefix) THEN SubSeq(s, Len(prefix) + 1, Len(s)) ELSE s

\* unicode.ToLower on one byte (ASCII letters)
ToLowerByte(b) ==
    IF \E i \in 1..Len(Upper) : Upper[i] = b
    THEN Lower[CHOOSE i \in 1..Len(Upper) : Upper[i] = b]
    ELSE b

\* strings.ToLower
ToLower(s) == [i \in 1..Len(s) |-> ToLowerByte(s[i])]

\* unicode.IsSpace on the bytes of the model's alphabet
IsSpace(b) == b \in {" ", "\t", "\n", "\r", "\f"}

\* strings.TrimSpace: drops the leading and the trailing white space
TrimSpace(s) ==
    LET keep == {i \in 1..Len(s) : ~IsSpace(s[i])}
    IN  IF keep = {} THEN <<>>
        ELSE SubSeq(s, CHOOSE i \in keep : \A j \in keep : i <= j,
                       CHOOSE i \in keep : \A j \in keep : i >= j)

\* Split with the field count capped at three, the third field unsplit, the
\* way strings.SplitN(s, sep, 3) splits
SplitAtMost3(s, sep) ==
    LET i == Index(s, sep)
        t == SubSeq(s, i + Len(sep), Len(s))
        j == Index(t, sep)
    IN  IF i = 0 THEN <<s>>
        ELSE IF j = 0 THEN <<SubSeq(s, 1, i - 1), t>>
        ELSE <<SubSeq(s, 1, i - 1), SubSeq(t, 1, j - 1),
               SubSeq(t, j + Len(sep), Len(t))>>

RECURSIVE Split(_, _)
\* strings.Split(s, sep): every occurrence of sep separates two fields
Split(s, sep) ==
    LET i == Index(s, sep)
    IN  IF i = 0 THEN <<s>>
        ELSE <<SubSeq(s, 1, i - 1)>> \o Split(SubSeq(s, i + Len(sep), Len(s)), sep)

\* SplitN with the limit n ignored: every occurrence of sep separates
SplitNAll(s, sep, n) == Split(s, sep)

RECURSIVE SplitN(_, _, _)
\* strings.SplitN(s, sep, n) for n > 0: at most n fields, the last one unsplit
SplitN(s, sep, n) ==
    LET i == Index(s, sep)
    IN  IF n = 1 \/ i = 0 THEN <<s>>
        ELSE <<SubSeq(s, 1, i - 1)>> \o SplitN(SubSeq(s, i + Len(sep), Len(s)), sep, n - 1)

DigitVal(b) == (CHOOSE i \in 1..Len(Digits) : Digits[i] = b) - 1

IsDigit(b) == \E i \in 1..Len(Digits) : Digits[i] = b

RECURSIVE Num(_)
\* the value of a non-empty string of decimal digits
Num(s) ==
    IF Len(s) = 0 THEN 0
    ELSE 10 * Num(SubSeq(s, 1, Len(s) - 1)) + DigitVal(s[Len(s)])

\* strconv.Atoi: an optional sign, then at least one digit and only digits.
\* (The range error of values beyond the int width is outside the inputs.)
Atoi(s) ==
    LET signed == Len(s) > 0 /\ s[1] \in {"+", "-"}
        ds     == IF signed THEN Tail(s) ELSE s
    IN  IF Len(ds) = 0 \/ \E i \in 1..Len(ds) : ~IsDigit(ds[i])
        THEN [num |-> 0, err |-> "ErrSyntax"]
        ELSE [num |-> IF signed /\ s[1] = "-" THEN 0 - Num(ds) ELSE Num(ds),
              err |-> "nil"]

RECURSIVE Itoa(_)
\* strconv.Itoa, and fmt's %d
Itoa(n) ==
    IF n < 0 THEN <<"-">> \o Itoa(0 - n)
    ELSE IF n < 10 THEN <<Digits[n + 1]>>
    ELSE Itoa(n \div 10) \o <<Digits[(n % 10) + 1]>>

IsContinuation(b) == b \in {"0xA9"}

IsLead2(b) == b \in {"0xC3"}

RECURSIVE RuneCountInString(_)
\* utf8.RuneCountInString: a well-formed two-byte character counts once,
\* every other byte (ASCII, or a byte of an ill-formed sequence) counts once
RuneCountInString(s) ==
    IF Len(s) = 0 THEN 0
    ELSE IF Len(s) >= 2 /\ IsLead2(s[1]) /\ IsContinuation(s[2])
         THEN 1 + RuneCountInString(SubSeq(s, 3, Len(s)))
         ELSE 1 + RuneCountInString(Tail(s))

\* bufio.Reader.ReadString('\n') at reader position p: the line with its
\* delimiter, or what is left and io.EOF when the stream ends first
ReadString(s, p) ==
    LET hits == {i \in (p + 1)..Len(s) : s[i] = LF}
    IN  IF hits = {}
        THEN [line |-> SubSeq(s, p + 1, Len(s)), pos |-> Len(s), err |-> "EOF"]
        ELSE LET i == CHOOSE i \in hits : \A j \in hits : i <= j
             IN  [line |-> SubSeq(s, p + 1, i), pos |-> i, err |-> "nil"]

\* ReadFull replaced by a single reader.Read: a short read is no error
ReadFullAsRead(s, p, n) ==
    IF Len(s) - p >= n
    THEN [buf |-> SubSeq(s, p + 1, p + n), pos |-> p + n, err |-> "nil"]
    ELSE [buf |-> SubSeq(s, p + 1, Len(s)), pos |-> Len(s), err |-> "nil"]

\* io.ReadFull(reader, buf) with len(buf) = n at reader position p
ReadFull(s, p, n) ==
    IF Len(s) - p >= n
    THEN [buf |-> SubSeq(s, p + 1, p + n), pos |-> p + n, err |-> "nil"]
    ELSE [buf |-> SubSeq(s, p + 1, Len(s)), pos |-> Len(s),
          err |-> IF Len(s) - p = 0 THEN "EOF" ELSE "ErrUnexpectedEOF"]

\* make([]byte, n) panics (makeslice: len out of range) for a negative n
MakePanics(n) == n < 0

----------------------------------------------------------------------------
(* Headers *)

NewHeaders == <<>>

\* Get without the case folding of the key
GetVerbatim(h, key) ==
    IF key \in DOMAIN h
    THEN [val |-> h[key], ok |-> TRUE]
    ELSE [val |-> <<>>, ok |-> FALSE]

Get(h, key) ==
    IF ToLower(key) \in DOMAIN h
    THEN [val |-> h[ToLower(key)], ok |-> TRUE]
    ELSE [val |-> <<>>, ok |-> FALSE]

\* Set without the case folding of the key
SetVerbatim(h, key, value) ==
    [k \in DOMAIN h \cup {key} |-> IF k = key THEN value ELSE h[k]]

Set(h, key, value) ==
    [k \in DOMAIN h \cup {ToLower(key)} |->
        IF k = ToLower(key) THEN value ELSE h[k]]

----------------------------------------------------------------------------
(* ParseRequest *)

RECURSIVE ParseHeaders(_, _, _)
\* the header loop: one line per turn until "\r\n" alone or a read error
ParseHeaders(s, p, h) ==
    LET r == ReadString(s, p)
    IN  IF r.err # "nil" \/ r.line = CRLF
        THEN [pos |-> r.pos, Headers |-> h]
        ELSE LET headerParts == SplitN(TrimSpace(r.line), <<":", " ">>, 2)
             IN  ParseHeaders(s, r.pos,
                     IF Len(headerParts) = 2
                     THEN Set(h, headerParts[1], headerParts[2])
                     ELSE h)

\* ret: "ok" (req, nil), "err" (nil, err) or "panic"; local is the function's
\* req variable when it left, pos the reader position
ParseRequest(s) ==
    LET first == ReadString(s, 0)
        parts == Split(first.line, <<SP>>)
    IN  IF first.err # "nil"
        THEN [ret |-> "err", req |-> <<>>, err |-> first.err, pos |-> first.pos,
              local |-> <<>>]
        ELSE IF Len(parts) # 3
        THEN [ret |-> "err", req |-> <<>>, err |-> "invalid request line",
              pos |-> first.pos, local |-> <<>>]
        ELSE
          LET hd == ParseHeaders(s, first.pos, NewHeaders)
              r0 == [Method |-> parts[1], RequestURI |-> parts[2],
                     HTTPVersion |-> parts[3], Headers |-> hd.Headers,
                     Body |-> <<>>]
              n  == Get(r0.Headers, sContentLength)
              a  == Atoi(n.val)
              rf == ReadFull(s, hd.pos, a.num)
          IN  IF n.ok /\ n.val # <<"0">>
              THEN IF a.err # "nil"
                   THEN [ret |-> "err", req |-> <<>>, err |-> a.err,
                         pos |-> hd.pos, local |-> <<r0>>]
                   ELSE IF MakePanics(a.num)
                   THEN [ret |-> "panic", req |-> <<>>, err |-> "nil",
                         pos |-> hd.pos, local |-> <<r0>>]
                   ELSE IF rf.err # "nil"
                   THEN [ret |-> "err", req |-> <<>>, err |-> rf.err,
                         pos |-> rf.pos, local |-> <<r0>>]
                   ELSE [ret |-> "ok", req |-> <<[r0 EXCEPT !.Body = rf.buf]>>,
                         err |-> "nil", pos |-> rf.pos,
                         local |-> <<[r0 EXCEPT !.Body = rf.buf]>>]
              ELSE [ret |-> "ok", req |-> <<r0>>, err |-> "nil", pos |-> hd.pos,
                    local |-> <<r0>>]

----------------------------------------------------------------------------
(* Response and its serialization *)

NewResponse ==
    [HTTPVersion |-> sHTTP11, StatusCode |-> 200, ReasonPhrase |-> sOK,
     Headers |-> NewHeaders, Body |-> <<>>]

\* The orders in which `range r.Headers` may visit the keys of the map
RangeOrders(h) ==
    {o \in [1..Cardinality(DOMAIN h) -> DOMAIN h] :
        \A i, j \in DOMAIN o : i # j => o[i] # o[j]}

RECURSIVE HeaderLines(_, _)
\* the loop of HeaderToString over the keys in the order of the iteration
HeaderLines(h, order) ==
    IF Len(order) = 0 THEN <<>>
    ELSE order[1] \o <<":", " ">> \o h[order[1]] \o CRLF
         \o HeaderLines(h, Tail(order))

HeaderToString(r, order) ==
    IF Cardinality(DOMAIN r.Headers) = 0 THEN <<>>
    ELSE HeaderLines(r.Headers, order)

\* String without the blank line between the headers and the body
StringNoBlankLine(r, order) ==
    r.HTTPVersion \o <<SP>> \o Itoa(r.StatusCode) \o <<SP>> \o r.ReasonPhrase
    \o CRLF \o HeaderToString(r, order) \o r.Body

\* Response.String: "%s %d %s\r\n%s\r\n%s"
String(r, order) ==
    r.HTTPVersion \o <<SP>> \o Itoa(r.StatusCode) \o <<SP>> \o r.ReasonPhrase
    \o CRLF \o HeaderToString(r, order) \o CRLF \o r.Body

----------------------------------------------------------------------------
(* filepath.Join and the file system calls of the file handlers *)

RECURSIVE JoinParts(_, _)
\* strings.Join
JoinParts(parts, sep) ==
    IF Len(parts) = 0 THEN <<>>
    ELSE IF Len(parts) = 1 THEN parts[1]
    ELSE parts[1] \o sep \o JoinParts(Tail(parts), sep)

RECURSIVE CleanParts(_, _, _)
\* filepath.Clean, one path element per turn: "" and "." are dropped and
\* ".." removes the element before it (none is left above a rooted path)
CleanParts(parts, stack, rooted) ==
    IF Len(parts) = 0 THEN stack
    ELSE LET e == parts[1]
         IN  IF e = <<>> \/ e = <<".">>
             THEN CleanParts(Tail(parts), stack, rooted)
             ELSE IF e = <<".", ".">>
             THEN IF Len(stack) > 0 /\ stack[Len(stack)] # <<".", ".">>
                  THEN CleanParts(Tail(parts), SubSeq(stack, 1, Len(stack) - 1), rooted)
                  ELSE IF rooted
                  THEN CleanParts(Tail(parts), stack, rooted)
                  ELSE CleanParts(Tail(parts), Append(stack, e), rooted)
             ELSE CleanParts(Tail(parts), Append(stack, e), rooted)

\* filepath.Clean
Clean(path) ==
    LET rooted == Len(path) > 0 /\ path[1] = "/"
        body   == JoinParts(CleanParts(Split(path, <<"/">>), <<>>, rooted), <<"/">>)
    IN  IF rooted THEN <<"/">> \o body
        ELSE IF body = <<>> THEN <<".">>
        ELSE body

\* filepath.Join(a, b): the non-empty elements joined by "/" and cleaned
Join(a, b) ==
    IF a = <<>> /\ b = <<>> THEN <<>>
    ELSE IF a = <<>> THEN Clean(b)
    ELSE IF b = <<>> THEN Clean(a)
    ELSE Clean(a \o <<"/">> \o b)

\* filepath.Dir of a cleaned path
ParentDir(path) ==
    LET hits == {i \in 1..Len(path) : path[i] = "/"}
        last == IF hits = {} THEN 0 ELSE CHOOSE i \in hits : \A j \in hits : i >= j
    IN  IF last = 0 THEN <<".">>
        ELSE IF last = 1 THEN <<"/">>
        ELSE SubSeq(path, 1, last - 1)

\* the directories that exist: the root and the storage directory
Dirs(dir) == {<<"/">>, Clean(dir)}

\* os.ReadFile(path); io is what the operating system answers for a
\* readable path: "ok", or "fail" (permission denied, I/O error)
ReadFile(fs, dir, path, io) ==
    IF path \in Dirs(dir) THEN [dat |-> <<>>, err |-> "EISDIR"]
    ELSE IF path \notin DOMAIN fs THEN [dat |-> <<>>, err |-> "ErrNotExist"]
    ELSE IF io = "fail" THEN [dat |-> <<>>, err |-> "EIO"]
    ELSE [dat |-> fs[path], err |-> "nil"]

\* WriteFile opening with O_APPEND in place of O_TRUNC: data is added to
\* what the file holds
WriteFileAppend(fs, dir, path, data, io) ==
    IF path \in Dirs(dir) THEN [fs |-> fs, err |-> "EISDIR"]
    ELSE IF ParentDir(path) \notin Dirs(dir) THEN [fs |-> fs, err |-> "ErrNotExist"]
    ELSE IF io = "fail" THEN [fs |-> fs, err |-> "EACCES"]
    ELSE [fs  |-> [p \in DOMAIN fs \cup {path} |->
                      IF p = path
                      THEN (IF p \in DOMAIN fs THEN fs[p] ELSE <<>>) \o data
                      ELSE fs[p]],
          err |-> "nil"]

\* os.WriteFile(path, data, 0644): creates or truncates the file and writes
WriteFile(fs, dir, path, data, io) ==
    IF path \in Dirs(dir) THEN [fs |-> fs, err |-> "EISDIR"]
    ELSE IF ParentDir(path) \notin Dirs(dir) THEN [fs |-> fs, err |-> "ErrNotExist"]
    ELSE IF io = "fail" THEN [fs |-> fs, err |-> "EACCES"]
    ELSE [fs  |-> [p \in DOMAIN fs \cup {path} |-> IF p = path THEN data ELSE fs[p]],
          err |-> "nil"]

----------------------------------------------------------------------------
(* The handlers: each returns the response, the file system it leaves and  *)
(* the paths it handed to os.ReadFile or os.WriteFile                       *)

homeHandler(r, fs) == [res |-> NewResponse, fs |-> fs, opened |-> <<>>]

echoHandler(r, fs) ==
    LET value == TrimPrefix(r.RequestURI, sEchoPrefix)
        h1    == Set(NewHeaders, sContentType, sTextPlain)
        h2    == Set(h1, sContentLength, Itoa(RuneCountInString(value)))
    IN  [res |-> [NewResponse EXCEPT !.Headers = h2, !.Body = value],
         fs |-> fs, opened |-> <<>>]

userAgentHandler(r, fs) ==
    LET ua == Get(r.Headers, sUserAgent)
        h1 == Set(NewHeaders, sContentType, sTextPlain)
        h2 == Set(h1, sContentLength, Itoa(RuneCountInString(ua.val)))
    IN  IF ua.ok
        THEN [res |-> [NewResponse EXCEPT !.Headers = h2, !.Body = ua.val],
              fs |-> fs, opened |-> <<>>]
        ELSE [res |-> NewResponse, fs |-> fs, opened |-> <<>>]

fileReturnHandler(r, fs, dir, io) ==
    LET filePath == Join(dir, TrimPrefix(r.RequestURI, sFilesPrefix))
        rd == ReadFile(fs, dir, filePath, io)
        h1 == Set(NewHeaders, sContentType, sOctetStream)
        h2 == Set(h1, sContentLength, Itoa(RuneCountInString(rd.dat)))
    IN  IF rd.err # "nil"
        THEN IF rd.err = "ErrNotExist"
             THEN [res |-> [NewResponse EXCEPT !.StatusCode = 404,
                                               !.ReasonPhrase = sNotFound],
                   fs |-> fs, opened |-> <<filePath>>]
             ELSE [res |-> [NewResponse EXCEPT !.StatusCode = 500,
                                               !.ReasonPhrase = sInternalServerError],
                   fs |-> fs, opened |-> <<filePath>>]
        ELSE [res |-> [NewResponse EXCEPT !.Headers = h2, !.Body = rd.dat],
              fs |-> fs, opened |-> <<filePath>>]

\* fileCreateHandler with the success path setting the status code alone
fileCreateHandlerCodeOnly(r, fs, dir, io) ==
    LET filePath == Join(dir, TrimPrefix(r.RequestURI, sFilesPrefix))
        wr == WriteFile(fs, dir, filePath, r.Body, io)
    IN  IF wr.err # "nil"
        THEN [res |-> [NewResponse EXCEPT !.StatusCode = 500,
                                          !.ReasonPhrase = sInternalServerError],
              fs |-> wr.fs, opened |-> <<filePath>>]
        ELSE [res |-> [NewResponse EXCEPT !.StatusCode = 201],
              fs |-> wr.fs, opened |-> <<filePath>>]

fileCreateHandler(r, fs, dir, io) ==
    LET filePath == Join(dir, TrimPrefix(r.RequestURI, sFilesPrefix))
        wr == WriteFile(fs, dir, filePath, r.Body, io)
    IN  IF wr.err # "nil"
        THEN [res |-> [NewResponse EXCEPT !.StatusCode = 500,
                                          !.ReasonPhrase = sInternalServerError],
              fs |-> wr.fs, opened |-> <<filePath>>]
        ELSE [res |-> [NewResponse EXCEPT !.StatusCode = 201,
                                          !.ReasonPhrase = sCreated],
              fs |-> wr.fs, opened |-> <<filePath>>]

fileHandler(r, fs, dir, io) ==
    IF r.Method = sPOST
    THEN fileCreateHandler(r, fs, dir, io)
    ELSE fileReturnHandler(r, fs, dir, io)

\* the call route.Handler(req) of a HandlerFunc value
Call(handler, r, fs, dir, io) ==
    CASE handler = "homeHandler"      -> homeHandler(r, fs)
      [] handler = "echoHandler"      -> echoHandler(r, fs)
      [] handler = "userAgentHandler" -> userAgentHandler(r, fs)
      [] handler = "fileHandler"      -> fileHandler(r, fs, dir, io)

----------------------------------------------------------------------------
(* Router *)

HandleExact(rs, path, handler) ==
    Append(rs, [Pattern |-> path, IsPrefix |-> FALSE, Handler |-> handler])

HandlePrefix(rs, prefix, handler) ==
    Append(rs, [Pattern |-> prefix, IsPrefix |-> TRUE, Handler |-> handler])

\* the test of Route with the exact entries treated as prefixes too
MatchesAsPrefix(route, uri) == HasPrefix(uri, route.Pattern)

\* the test of one turn of the loop of Route
Matches(route, uri) ==
    IF route.IsPrefix THEN HasPrefix(uri, route.Pattern) ELSE uri = route.Pattern

\* the loop of Route keeping the last match instead of returning at the first
RouteIndexLast(rs, uri) ==
    LET hits == {i \in 1..Len(rs) : Matches(rs[i], uri)}
    IN  IF hits = {} THEN 0 ELSE CHOOSE i \in hits : \A j \in hits : i >= j

\* the loop of Route: the index of the entry whose handler it calls, 0 if
\* it runs to the end
RouteIndex(rs, uri) ==
    LET hits == {i \in 1..Len(rs) : Matches(rs[i], uri)}
    IN  IF hits = {} THEN 0 ELSE CHOOSE i \in hits : \A j \in hits : i <= j

\* Router.Route: called lists the index of the route whose handler was called,
\* opened the paths that handler opened
Route(rs, r, fs, dir, io) ==
    LET i == RouteIndex(rs, r.RequestURI)
        h == Call(rs[i].Handler, r, fs, dir, io)
    IN  IF i # 0
        THEN [res |-> h.res, fs |-> h.fs, called |-> <<i>>, opened |-> h.opened]
        ELSE [res |-> [NewResponse EXCEPT !.StatusCode = 404,
                                          !.ReasonPhrase = sNotFound],
              fs |-> fs, called |-> <<>>, opened |-> <<>>]

\* the table main builds before the accept loop
MainRoutes ==
    HandlePrefix(
        HandlePrefix(
            HandleExact(
                HandleExact(<<>>, sRoot, "homeHandler"),
                sUserAgentPath, "userAgentHandler"),
            sEchoPrefix, "echoHandler"),
        sFilesPrefix, "fileHandler")

----------------------------------------------------------------------------
(* The requests a peer may send *)

MaxHeaders == 2

MaxTail == 3

RECURSIVE Flatten(_)
Flatten(ss) == IF Len(ss) = 0 THEN <<>> ELSE ss[1] \o Flatten(Tail(ss))

SeqsUpTo(S, n) == UNION {[1..k -> S] : k \in 0..n}

\* first lines: well-formed ones, one ended by LF alone, ones with the wrong
\* number of fields, one cut off before its newline, none at all, and ones
\* with an empty field
ReqLines ==
    { <<"G","E","T"," ","/"," ","H","T","T","P","/","1",".","1","\r","\n">>,
      <<"G","E","T"," ","/","e","c","h","o","/","a","b"," ","H","T","T","P","/","1",".","1","\r","\n">>,
      <<"G","E","T"," ","/","u","s","e","r","-","a","g","e","n","t"," ","H","T","T","P","/","1",".","1","\r","\n">>,
      <<"P","O","S","T"," ","/","f","i","l","e","s","/","f"," ","H","T","T","P","/","1",".","1","\r","\n">>,
      <<"G","E","T"," ","/","f","i","l","e","s","/","f"," ","H","T","T","P","/","1",".","1","\r","\n">>,
      <<"G","E","T"," ","/","f","i","l","e","s","/","g"," ","H","T","T","P","/","1",".","1","\r","\n">>,
      <<"G","E","T"," ","/","m","i","s","s","i","n","g"," ","H","T","T","P","/","1",".","1","\n">>,
      <<"G","E","T"," ","/","a"," ","b"," ","H","T","T","P","/","1",".","1","\r","\n">>,
      <<"G","E","T"," ","/","\r","\n">>,
      <<"G","E","T"," ","/"," ","H","T","T","P","/","1",".","1">>,
      <<>>,
      <<" ","/"," ","H","T","T","P","/","1",".","1","\r","\n">>,
      <<"G","E","T"," "," ","H","T","T","P","/","1",".","1","\r","\n">> }

\* header lines: none is "\r\n" alone and each ends with a newline
HeaderLineSet ==
    { <<"C","o","n","t","e","n","t","-","L","e","n","g","t","h",":"," ","2","\r","\n">>,
      <<"c","o","n","t","e","n","t","-","l","e","n","g","t","h",":"," ","0","\r","\n">>,
      <<"C","o","n","t","e","n","t","-","L","e","n","g","t","h",":"," ","-","1","\r","\n">>,
      <<"C","O","N","T","E","N","T","-","L","E","N","G","T","H",":"," ","x","\r","\n">>,
      <<"U","s","e","r","-","A","g","e","n","t",":"," ","a",":"," ","b","\r","\n">>,
      <<"j","u","n","k","\n">> }

\* the bytes that follow the header section
TailBytes(n) == [i \in 1..n |-> <<"a", "b", "c">>[((i - 1) % 3) + 1]]

\* a stream: the first line, the header lines, the blank line (term) or
\* not, and the bytes after it
\* targets that come close to an entry of main's table without matching it
NearMissTargets ==
    { <<"/","e","c","h","o">>, <<"/","f","i","l","e","s">>,
      <<"/","u","s","e","r","-","a","g","e","n","t","/","x">> }

\* requests at the edges of the echo and file routes: an empty remainder,
\* a remainder with a two-byte character, a remainder that climbs out of the
\* storage directory, and a method the handlers do not look at
EdgeRequests ==
    { [method |-> <<"G","E","T">>,     target |-> sEchoPrefix],
      [method |-> <<"G","E","T">>,     target |-> sEchoPrefix \o <<"a","b","c">>],
      [method |-> <<"G","E","T">>,     target |-> sEchoPrefix \o <<"0xC3","0xA9">>],
      [method |-> sPOST,               target |-> sEchoPrefix \o <<"a","b">>],
      [method |-> <<"G","E","T">>,     target |-> sFilesPrefix],
      [method |-> sPOST,               target |-> sFilesPrefix],
      [method |-> <<"G","E","T">>,     target |-> sFilesPrefix \o <<".",".","/","x">>],
      [method |-> sPOST,               target |-> sFilesPrefix \o <<".",".","/","x">>] }

Inputs ==
    { [line |-> l, hdrs |-> hs, term |-> t, tail |-> TailBytes(n)] :
        l \in ReqLines, hs \in SeqsUpTo(HeaderLineSet, MaxHeaders),
        t \in BOOLEAN, n \in 0..MaxTail }
    \cup
    { [line |-> <<"G","E","T"," ">> \o t \o <<" ">> \o sHTTP11 \o CRLF,
       hdrs |-> <<>>, term |-> TRUE, tail |-> <<>>] : t \in NearMissTargets }
    \cup
    { [line |-> e.method \o <<" ">> \o e.target \o <<" ">> \o sHTTP11 \o CRLF,
       hdrs |-> <<>>, term |-> TRUE, tail |-> <<>>] : e \in EdgeRequests }

Bytes(i) ==
    i.line \o Flatten(i.hdrs) \o (IF i.term THEN CRLF ELSE <<>>) \o i.tail

\* the files present when the server starts
InitFiles ==
    [p \in {<<"/","t","m","p","/","f">>} |-> <<"h","i">>]

----------------------------------------------------------------------------
(* handleConnection, one goroutine per connection *)

Conns == DOMAIN pc

\* what conn.Write(b) may do: write all of b, or fail after a part of it
WriteResults(b) ==
    {[n |-> Len(b), err |-> "nil"]}
    \cup {[n |-> k, err |-> "EPIPE"] : k \in {0, Len(b) - 1}}

\* req, err := ParseRequest(bufio.NewReader(conn)) and the error branch;
\* a panic runs the deferred conn.Close() and then ends the process, which
\* closes every socket
ParseStep(c) ==
    /\ mainpc = "serve" /\ ~panicked /\ pc[c] = "parse"
    /\ \E p \in {ParseRequest(Bytes(inbound[c]))} :
           /\ pos' = [pos EXCEPT ![c] = p.pos]
           /\ plocal' = [plocal EXCEPT ![c] = p.local]
           /\ req' = [req EXCEPT ![c] = p.req]
           /\ perr' = [perr EXCEPT ![c] = p.err]
           /\ pc' = [pc EXCEPT ![c] =
                        CASE p.ret = "ok" -> "route"
                          [] p.ret = "err" -> "done"
                          [] p.ret = "panic" -> "panic"]
           /\ logs' = [logs EXCEPT ![c] =
                        IF p.ret = "err" /\ p.err # "EOF"
                        THEN Append(@, "Error reading from connection")
                        ELSE @]
           /\ closed' = CASE p.ret = "ok" -> closed
                          [] p.ret = "err" -> [closed EXCEPT ![c] = TRUE]
                          [] p.ret = "panic" -> [x \in DOMAIN closed |-> TRUE]
           /\ panicked' = (p.ret = "panic")
    /\ UNCHANGED <<routes, FILE_DIRECTORY, files, mainpc, inbound, res, invoked,
                   wire, out, hist, opened>>

\* res := router.Route(req)
RouteStep(c) ==
    /\ mainpc = "serve" /\ ~panicked /\ pc[c] = "route"
    /\ \E io \in {"ok", "fail"} :
         \E r \in {Route(routes, req[c][1], files, FILE_DIRECTORY, io)} :
             /\ res' = [res EXCEPT ![c] = <<r.res>>]
             /\ files' = r.fs
             /\ invoked' = [invoked EXCEPT ![c] = @ \o r.called]
             /\ opened' = [opened EXCEPT ![c] = @ \o r.opened]
    /\ pc' = [pc EXCEPT ![c] = "write"]
    /\ UNCHANGED <<routes, FILE_DIRECTORY, panicked, mainpc, inbound, pos, plocal,
                   req, perr, wire, out, logs, closed, hist>>

\* conn.Write([]byte(res.String())), its error branch, the deferred Close
WriteStep(c) ==
    /\ mainpc = "serve" /\ ~panicked /\ pc[c] = "write"
    /\ \E order \in RangeOrders(res[c][1].Headers) :
         \E b \in {String(res[c][1], order)} : \E w \in WriteResults(b) :
               /\ wire' = [wire EXCEPT ![c] = Append(@, b)]
               /\ out' = [out EXCEPT ![c] = @ \o SubSeq(b, 1, w.n)]
               /\ logs' = [logs EXCEPT ![c] =
                            IF w.err # "nil"
                            THEN Append(@, "Error writing to connection")
                            ELSE @]
    /\ pc' = [pc EXCEPT ![c] = "done"]
    /\ closed' = [closed EXCEPT ![c] = TRUE]
    /\ UNCHANGED <<routes, FILE_DIRECTORY, files, panicked, mainpc, inbound, pos,
                   plocal, req, perr, res, invoked, hist, opened>>

\* the state with main at mpc, the table rs, and a goroutine at position
\* at, holding the response r0, for each connection of ins
Start(mpc, rs, ins, at, r0) ==
    /\ routes = rs
    /\ FILE_DIRECTORY = sTmp
    /\ files = InitFiles
    /\ panicked = FALSE
    /\ mainpc = mpc
    /\ inbound = ins
    /\ pos = [c \in DOMAIN ins |-> 0]
    /\ pc = [c \in DOMAIN ins |-> at]
    /\ plocal = [c \in DOMAIN ins |-> <<>>]
    /\ req = [c \in DOMAIN ins |-> <<>>]
    /\ perr = [c \in DOMAIN ins |-> "nil"]
    /\ res = [c \in DOMAIN ins |-> r0]
    /\ invoked = [c \in DOMAIN ins |-> <<>>]
    /\ wire = [c \in DOMAIN ins |-> <<>>]
    /\ out = [c \in DOMAIN ins |-> <<>>]
    /\ logs = [c \in DOMAIN ins |-> <<>>]
    /\ closed = [c \in DOMAIN ins |-> FALSE]
    /\ hist = [c \in DOMAIN ins |-> <<>>]
    /\ opened = [c \in DOMAIN ins |-> <<>>]

\* main is in its accept loop and has started the goroutine of one connection
Init == \E i \in Inputs : Start("serve", MainRoutes, <<i>>, "parse", <<>>)

Next ==
    \E c \in Conns :
        \/ ParseStep(c)
        \/ RouteStep(c)
        \/ WriteStep(c)

Spec == Init /\ [][Next]_vars

----------------------------------------------------------------------------
(* Two connections served at once *)

ConcInputs ==
    { [line |-> <<"G","E","T"," ","/"," ","H","T","T","P","/","1",".","1","\r","\n">>,
       hdrs |-> <<>>, term |-> TRUE, tail |-> <<>>],
      [line |-> <<"G","E","T"," ","/","e","c","h","o","/","a","b"," ","H","T","T","P","/","1",".","1","\r","\n">>,
       hdrs |-> <<>>, term |-> TRUE, tail |-> <<>>],
      [line |-> <<"P","O","S","T"," ","/","f","i","l","e","s","/","f"," ","H","T","T","P","/","1",".","1","\r","\n">>,
       hdrs |-> << <<"C","o","n","t","e","n","t","-","L","e","n","g","t","h",":"," ","-","1","\r","\n">> >>,
       term |-> TRUE, tail |-> <<>>],
      [line |-> <<"P","O","S","T"," ","/","f","i","l","e","s","/","g"," ","H","T","T","P","/","1",".","1","\r","\n">>,
       hdrs |-> << <<"C","o","n","t","e","n","t","-","L","e","n","g","t","h",":"," ","2","\r","\n">> >>,
       term |-> TRUE, tail |-> <<"0xC3","0xA9">>],
      [line |-> <<"G","E","T"," ","/","f","i","l","e","s","/","g"," ","H","T","T","P","/","1",".","1","\r","\n">>,
       hdrs |-> <<>>, term |-> TRUE, tail |-> <<>>],
      [line |-> <<>>, hdrs |-> <<>>, term |-> FALSE, tail |-> <<>>] }

InitConc ==
    \E a, b \in ConcInputs : Start("serve", MainRoutes, <<a, b>>, "parse", <<>>)

SpecConc == InitConc /\ [][Next]_vars

----------------------------------------------------------------------------
(* Any route table: main registers entries, then serves one connection *)

MaxRoutes == 2

RouterPatterns == { <<"/">>, <<"/","a">>, <<"/","a","/">> }

RouterHandlers == {"homeHandler", "echoHandler"}

RouterInputs ==
    { [line |-> <<"G","E","T"," ">> \o t \o <<" ">> \o sHTTP11 \o CRLF,
       hdrs |-> <<>>, term |-> TRUE, tail |-> <<>>] :
        t \in { <<"/">>, <<"/","a">>, <<"/","a","/","b">>, <<"/","b">> } }

\* router.HandleExact(path, handler)
HandleExactStep(path, handler) ==
    /\ mainpc = "register" /\ Len(routes) < MaxRoutes
    /\ routes' = HandleExact(routes, path, handler)
    /\ UNCHANGED <<FILE_DIRECTORY, files, panicked, mainpc, inbound, pos, pc,
                   plocal, req, perr, res, invoked, wire, out, logs, closed, hist, opened>>

\* router.HandlePrefix(prefix, handler)
HandlePrefixStep(prefix, handler) ==
    /\ mainpc = "register" /\ Len(routes) < MaxRoutes
    /\ routes' = HandlePrefix(routes, prefix, handler)
    /\ UNCHANGED <<FILE_DIRECTORY, files, panicked, mainpc, inbound, pos, pc,
                   plocal, req, perr, res, invoked, wire, out, logs, closed, hist, opened>>

\* main enters the accept loop: conn := l.Accept(); go handleConnection(conn, router)
Accept(i) ==
    /\ mainpc = "register"
    /\ mainpc' = "serve"
    /\ inbound' = Append(inbound, i)
    /\ pos' = Append(pos, 0)
    /\ pc' = Append(pc, "parse")
    /\ plocal' = Append(plocal, <<>>)
    /\ req' = Append(req, <<>>)
    /\ perr' = Append(perr, "nil")
    /\ res' = Append(res, <<>>)
    /\ invoked' = Append(invoked, <<>>)
    /\ wire' = Append(wire, <<>>)
    /\ out' = Append(out, <<>>)
    /\ logs' = Append(logs, <<>>)
    /\ closed' = Append(closed, FALSE)
    /\ hist' = Append(hist, <<>>)
    /\ opened' = Append(opened, <<>>)
    /\ UNCHANGED <<routes, FILE_DIRECTORY, files, panicked>>

InitRouter == Start("register", <<>>, <<>>, "parse", <<>>)

NextRouter ==
    \/ \E p \in RouterPatterns, h \in RouterHandlers : HandleExactStep(p, h)
    \/ \E p \in RouterPatterns, h \in RouterHandlers : HandlePrefixStep(p, h)
    \/ \E i \in RouterInputs : Accept(i)
    \/ \E c \in Conns : ParseStep(c)
    \/ \E c \in Conns : RouteStep(c)
    \/ \E c \in Conns : WriteStep(c)

SpecRouter == InitRouter /\ [][NextRouter]_vars

----------------------------------------------------------------------------
(* Any response: a handler that holds a NewResponse() sets headers, status *)
(* and body, and returns it to handleConnection, which writes it           *)

MaxSets == 2

RespNames ==
    { sContentType, sContentLength,
      <<"c","o","n","t","e","n","t","-","t","y","p","e">>,
      <<"C","O","N","T","E","N","T","-","L","E","N","G","T","H">> }

RespValues == { sTextPlain, <<"5">> }

RespBodies == { <<"h","e","l","l","o">>, <<"\r","\n","x">> }

RespStatus ==
    { [code |-> 404, reason |-> sNotFound], [code |-> 201, reason |-> sCreated] }

\* res.Headers.Set(name, value)
HeaderSet(c, name, value) ==
    /\ ~panicked /\ pc[c] = "handler" /\ Len(hist[c]) < MaxSets
    /\ res' = [res EXCEPT ![c][1].Headers = Set(@, name, value)]
    /\ hist' = [hist EXCEPT ![c] = Append(@, [k |-> name, v |-> value])]
    /\ UNCHANGED <<routes, FILE_DIRECTORY, files, panicked, mainpc, inbound, pos,
                   pc, plocal, req, perr, invoked, wire, out, logs, closed, opened>>

\* res.StatusCode = code; res.ReasonPhrase = reason
SetStatus(c, st) ==
    /\ ~panicked /\ pc[c] = "handler" /\ res[c][1].StatusCode = 200
    /\ res' = [res EXCEPT ![c][1].StatusCode = st.code,
                          ![c][1].ReasonPhrase = st.reason]
    /\ UNCHANGED <<routes, FILE_DIRECTORY, files, panicked, mainpc, inbound, pos,
                   pc, plocal, req, perr, invoked, wire, out, logs, closed, hist, opened>>

\* res.Body = body
SetBody(c, body) ==
    /\ ~panicked /\ pc[c] = "handler" /\ res[c][1].Body = <<>>
    /\ res' = [res EXCEPT ![c][1].Body = body]
    /\ UNCHANGED <<routes, FILE_DIRECTORY, files, panicked, mainpc, inbound, pos,
                   pc, plocal, req, perr, invoked, wire, out, logs, closed, hist, opened>>

\* return res
Return(c) ==
    /\ ~panicked /\ pc[c] = "handler"
    /\ pc' = [pc EXCEPT ![c] = "write"]
    /\ UNCHANGED <<routes, FILE_DIRECTORY, files, panicked, mainpc, inbound, pos,
                   plocal, req, perr, res, invoked, wire, out, logs, closed, hist, opened>>

InitResp ==
    Start("serve", MainRoutes,
          <<[line |-> <<>>, hdrs |-> <<>>, term |-> FALSE, tail |-> <<>>]>>,
          "handler", <<NewResponse>>)

NextResp ==
    \E c \in Conns :
        \/ \E n \in RespNames, v \in RespValues : HeaderSet(c, n, v)
        \/ \E st \in RespStatus : SetStatus(c, st)
        \/ \E b \in RespBodies : SetBody(c, b)
        \/ Return(c)
        \/ WriteStep(c)

SpecResp == InitResp /\ [][NextResp]_vars

----------------------------------------------------------------------------
(* Claims about ParseRequest, checked under Spec *)

\* ParseRequest has returned (or panicked) on connection c
Parsed(c) == pc[c] # "parse"

\* the first line of c was read as a line and the header section of c ends
\* with a blank line, after which the tail starts
Framed(c) ==
    /\ Len(inbound[c].line) > 0
    /\ inbound[c].line[Len(inbound[c].line)] = LF
    /\ inbound[c].term

\* the reader position just after the blank line of a framed stream
BodyStart(c) == Len(inbound[c].line) + Len(Flatten(inbound[c].hdrs)) + 2

\* C1: body delimiting by declared length.  Once ParseRequest has accepted
\* the request line of a framed stream: if the header table holds a
\* Content-Length of value k > 0 and at least k bytes follow the blank line,
\* the request is returned with exactly the first k of them as body and the
\* reader stands right after them; if fewer than k follow, no request is
\* returned and the call fails with an end-of-stream error; if the table
\* holds no Content-Length or the value "0", the request is returned with an
\* empty body and the reader stands right after the blank line.
C1_BodyDelimiting ==
    \A c \in Conns :
        (Parsed(c) /\ plocal[c] # <<>> /\ Framed(c)) =>
            LET n     == Get(plocal[c][1].Headers, sContentLength)
                k     == Atoi(n.val)
                avail == inbound[c].tail
            IN  /\ (n.ok /\ k.err = "nil" /\ k.num > 0 /\ Len(avail) >= k.num) =>
                       /\ perr[c] = "nil" /\ req[c] # <<>>
                       /\ req[c][1].Body = SubSeq(avail, 1, k.num)
                       /\ pos[c] = BodyStart(c) + k.num
                /\ (n.ok /\ k.err = "nil" /\ k.num > 0 /\ Len(avail) < k.num) =>
                       /\ req[c] = <<>>
                       /\ perr[c] \in {"EOF", "ErrUnexpectedEOF"}
                       /\ pc[c] = "done"
                /\ (~n.ok \/ n.val = <<"0">>) =>
                       /\ perr[c] = "nil" /\ req[c] # <<>>
                       /\ req[c][1].Body = <<>>
                       /\ pos[c] = BodyStart(c)

\* a declared length of 2 with 3 bytes after the blank line: the body is the
\* first two and the third is left unread
C1_Witness ==
    \E c \in Conns :
        /\ Parsed(c) /\ Framed(c) /\ req[c] # <<>>
        /\ Get(req[c][1].Headers, sContentLength).val = <<"2">>
        /\ Len(inbound[c].tail) = 3
        /\ req[c][1].Body = <<"a", "b">>
        /\ pos[c] = Len(Bytes(inbound[c])) - 1

\* a non-empty string of decimal digits
IsNonNegInt(v) == Len(v) > 0 /\ \A i \in 1..Len(v) : IsDigit(v[i])

\* C2: Content-Length validation.  For every Content-Length value other
\* than "0" in the header table, ParseRequest either takes it as a
\* non-negative integer k and returns a request whose body has k bytes, or
\* returns a failure; a value that is no non-negative integer always ends in
\* a returned failure.  (The code panics on a negative value.)
C2_ContentLengthValidation ==
    \A c \in Conns :
        LET n == Get(plocal[c][1].Headers, sContentLength)
        IN  (Parsed(c) /\ plocal[c] # <<>> /\ n.ok /\ n.val # <<"0">>) =>
                /\ \/ /\ pc[c] = "done" /\ req[c] = <<>> /\ perr[c] # "nil"
                   \/ /\ IsNonNegInt(n.val)
                      /\ perr[c] = "nil" /\ req[c] # <<>>
                      /\ Len(req[c][1].Body) = Num(n.val)
                /\ ~IsNonNegInt(n.val) =>
                      (pc[c] = "done" /\ req[c] = <<>> /\ perr[c] # "nil")

\* the first line of c without its line terminator (CRLF, or LF alone)
LineCore(c) ==
    LET l == inbound[c].line
    IN  IF Len(l) >= 2 /\ l[Len(l) - 1] = CR
        THEN SubSeq(l, 1, Len(l) - 2)
        ELSE SubSeq(l, 1, Len(l) - 1)

\* ParseRequest accepted the request line of c and then failed or panicked,
\* which only the Content-Length branch can make it do
ContentLengthFailure(c) == plocal[c] # <<>> /\ req[c] = <<>>

\* C5: request-line parsing.  For a first line METHOD SP TARGET SP VERSION
\* ended by CRLF or LF that splits on single spaces into exactly three
\* fields, and without a Content-Length failure, ParseRequest returns a
\* request whose Method, RequestURI and HTTPVersion are those three fields,
\* the line terminator being part of none.  (The code leaves the terminator
\* in HTTPVersion.)
C5_RequestLineVerbatim ==
    \A c \in Conns :
        LET f == Split(LineCore(c), <<SP>>)
        IN  ( /\ Parsed(c)
              /\ Len(inbound[c].line) > 0
              /\ inbound[c].line[Len(inbound[c].line)] = LF
              /\ Len(f) = 3
              /\ ~ContentLengthFailure(c) ) =>
                /\ req[c] # <<>>
                /\ req[c][1].Method = f[1]
                /\ req[c][1].RequestURI = f[2]
                /\ req[c][1].HTTPVersion = f[3]

\* C6: StreamEnded is a distinct outcome.  ParseRequest returns io.EOF, and
\* handleConnection logs nothing, exactly when the stream ended before any
\* byte was read; every other failure is a value other than io.EOF and is
\* logged.  (The code also returns io.EOF for a first line cut off before
\* its newline and for a declared body of which no byte arrived.)
C6_StreamEndedDistinct ==
    \A c \in Conns :
        (pc[c] = "done" /\ req[c] = <<>>) =>
            /\ perr[c] = "EOF" <=> Bytes(inbound[c]) = <<>>
            /\ logs[c] = <<>> <=> Bytes(inbound[c]) = <<>>

----------------------------------------------------------------------------
(* Claims about handleConnection, checked under SpecConc *)

IsPrefixOf(a, b) == Len(a) <= Len(b) /\ SubSeq(b, 1, Len(a)) = a

\* C7: per-connection lifecycle.  Once the connection is closed: if
\* ParseRequest returned no request, Route was not called and no byte was
\* written; if it returned one, Route was called and one Write was made
\* with the complete response, which reached the peer in full unless that
\* write failed; and no byte beyond the first request was read.  (A panic
\* of ParseRequest on another connection ends the process and closes a
\* connection whose request was parsed before its response is written.)
C7_Lifecycle ==
    \A c \in Conns :
        closed[c] =>
            /\ req[c] = <<>> => (res[c] = <<>> /\ wire[c] = <<>> /\ out[c] = <<>>)
            /\ req[c] # <<>> =>
                  /\ res[c] # <<>>
                  /\ Len(wire[c]) = 1
                  /\ \E o \in RangeOrders(res[c][1].Headers) :
                         wire[c][1] = String(res[c][1], o)
                  /\ IsPrefixOf(out[c], wire[c][1])
                  /\ (logs[c] = <<>> => out[c] = wire[c][1])

----------------------------------------------------------------------------
(* Claims about the Router *)

\* u begins with p
StartsWith(u, p) == Len(p) <= Len(u) /\ \A i \in 1..Len(p) : u[i] = p[i]

\* the entry e of a route table matches the request-target u
EntryMatches(e, u) == IF e.IsPrefix THEN StartsWith(u, e.Pattern) ELSE u = e.Pattern

\* the positions of the entries of the table that match the target of c
MatchSet(c) ==
    {i \in 1..Len(routes) : EntryMatches(routes[i], req[c][1].RequestURI)}

\* C3: first match wins (under SpecRouter, for every table main may
\* register).  Route calls at most one handler; when some entry matches the
\* request-target it calls the handler of the earliest matching entry, and
\* of no later one whatever its kind, and returns what that handler returns;
\* when none matches it calls no handler.
C3_FirstMatchWins ==
    \A c \in Conns :
        res[c] # <<>> =>
            LET M == MatchSet(c)
            IN  /\ Len(invoked[c]) <= 1
                /\ M = {} => invoked[c] = <<>>
                /\ M # {} =>
                      /\ Len(invoked[c]) = 1
                      /\ invoked[c][1] \in M
                      /\ \A j \in M : invoked[c][1] <= j
                      /\ res[c][1] =
                            Call(routes[invoked[c][1]].Handler, req[c][1], files,
                                 FILE_DIRECTORY, "ok").res

\* a prefix entry registered before an exact entry of another handler, both
\* matching the target: the handler of the prefix entry ran
C3_Witness ==
    \E c \in Conns :
        /\ res[c] # <<>>
        /\ MatchSet(c) = {1, 2}
        /\ routes[1].IsPrefix /\ ~routes[2].IsPrefix
        /\ routes[1].Handler = "echoHandler" /\ routes[2].Handler = "homeHandler"
        /\ invoked[c] = <<1>>
        /\ DOMAIN res[c][1].Headers # {}

NotFoundResponse ==
    [HTTPVersion |-> sHTTP11, StatusCode |-> 404, ReasonPhrase |-> sNotFound,
     Headers |-> <<>>, Body |-> <<>>]

\* the target u is none of the four routes of the assembled table
OffTable(u) ==
    /\ u # <<"/">>
    /\ u # <<"/","u","s","e","r","-","a","g","e","n","t">>
    /\ ~StartsWith(u, <<"/","e","c","h","o","/">>)
    /\ ~StartsWith(u, <<"/","f","i","l","e","s","/">>)

\* C4: router default (under Spec, with the table main assembles).  When no
\* entry matches the request-target, and so for every target that is not
\* "/", "/user-agent", or below "/echo/" or "/files/", Route calls no handler
\* and returns HTTP/1.1 404 Not Found with no headers and an empty body.
C4_NoMatchIs404 ==
    \A c \in Conns :
        (res[c] # <<>> /\ (MatchSet(c) = {} \/ OffTable(req[c][1].RequestURI))) =>
            /\ invoked[c] = <<>>
            /\ res[c][1] = NotFoundResponse

\* every near miss and "/missing" is among the targets; here "/user-agent/x"
\* was answered, the 404 response having reached the peer
C4_Witness ==
    \E c \in Conns :
        /\ res[c] # <<>>
        /\ req[c][1].RequestURI = <<"/","u","s","e","r","-","a","g","e","n","t","/","x">>
        /\ invoked[c] = <<>>
        /\ out[c] = sHTTP11 \o <<" ","4","0","4"," ">> \o sNotFound \o CRLF \o CRLF

----------------------------------------------------------------------------
(* Claims about the header table and Response.String, checked under SpecResp *)

\* a and b differ at most in the case of their letters
EqualFold(a, b) ==
    /\ Len(a) = Len(b)
    /\ \A i \in 1..Len(a) :
          \/ a[i] = b[i]
          \/ \E j \in 1..Len(Upper) : {a[i], b[i]} = {Upper[j], Lower[j]}

\* the names looked up: those set, other spellings of them, one never set
LookupNames ==
    RespNames \cup
    { <<"c","O","n","T","e","N","t","-","t","Y","p","E">>,
      <<"c","o","n","t","e","n","t","-","l","e","n","g","t","h">>,
      <<"H","o","s","t">> }

\* C8: header table case-insensitivity.  After any sequence of Set calls on
\* a table made by NewHeaders, Get of a name returns found = false when no
\* Set used that name in any spelling, and otherwise (v, true) with v the
\* value of the last Set whose name differs from it at most in case; and no
\* two keys of the table differ only by case.
C8_CaseInsensitive ==
    \A c \in Conns :
        res[c] # <<>> =>
            LET t == res[c][1].Headers
                H == hist[c]
            IN  /\ \A n2 \in LookupNames :
                      LET I == {i \in DOMAIN H : EqualFold(H[i].k, n2)}
                      IN  IF I = {}
                          THEN ~Get(t, n2).ok
                          ELSE Get(t, n2) =
                                 [val |-> H[CHOOSE i \in I : \A j \in I : i >= j].v,
                                  ok |-> TRUE]
                /\ \A k1, k2 \in DOMAIN t : EqualFold(k1, k2) => k1 = k2

\* Set("Content-Type", "text/plain") then Set("content-type", "5"): one
\* key, and Get("Content-Type") finds "5"
C8_Witness ==
    \E c \in Conns :
        /\ hist[c] = <<[k |-> sContentType, v |-> sTextPlain],
                       [k |-> <<"c","o","n","t","e","n","t","-","t","y","p","e">>,
                        v |-> <<"5">>]>>
        /\ Cardinality(DOMAIN res[c][1].Headers) = 1
        /\ Get(res[c][1].Headers, sContentType) = [val |-> <<"5">>, ok |-> TRUE]

\* the response of the round-trip example has been built and passed to Write
ExampleWritten(c) ==
    /\ hist[c] = <<[k |-> sContentType, v |-> sTextPlain],
                   [k |-> sContentLength, v |-> <<"5">>]>>
    /\ res[c][1].HTTPVersion = sHTTP11
    /\ res[c][1].StatusCode = 200
    /\ res[c][1].ReasonPhrase = sOK
    /\ res[c][1].Body = <<"h","e","l","l","o">>
    /\ Len(wire[c]) = 1

\* the bytes of the example with the header names spelled n1 and n2, in
\* either order of the two header lines
ExampleBytes(n1, n2) ==
    LET sl == <<"H","T","T","P","/","1",".","1"," ","2","0","0"," ","O","K","\r","\n">>
        l1 == n1 \o <<":"," ","t","e","x","t","/","p","l","a","i","n","\r","\n">>
        l2 == n2 \o <<":"," ","5","\r","\n">>
        e  == <<"\r","\n","h","e","l","l","o">>
    IN  {sl \o l1 \o l2 \o e, sl \o l2 \o l1 \o e}

\* C9 as stated: the example serializes to the status line, the lines
\* "Content-Type: text/plain" and "Content-Length: 5" in either order, a
\* blank line and "hello", the header names spelled as they were given
C9_NamesAsGiven ==
    \A c \in Conns :
        ExampleWritten(c) =>
            wire[c][1] \in
                ExampleBytes(<<"C","o","n","t","e","n","t","-","T","y","p","e">>,
                             <<"C","o","n","t","e","n","t","-","L","e","n","g","t","h">>)

\* C9 amended: the same bytes but with the header names in the lower-case
\* spelling under which the table stores them: "content-type: text/plain"
\* and "content-length: 5"
C9_NamesLowerCase ==
    \A c \in Conns :
        ExampleWritten(c) =>
            wire[c][1] \in
                ExampleBytes(<<"c","o","n","t","e","n","t","-","t","y","p","e">>,
                             <<"c","o","n","t","e","n","t","-","l","e","n","g","t","h">>)

\* the example was written and reached the peer in full
C9_Witness ==
    \E c \in Conns : ExampleWritten(c) /\ out[c] = wire[c][1] /\ pc[c] = "done"

\* the three decimal digits of a status code between 100 and 999
Dec3(n) ==
    <<Digits[(n \div 100) + 1], Digits[((n \div 10) % 10) + 1], Digits[(n % 10) + 1]>>

RECURSIVE LineBytes(_, _)
\* the number of bytes of the lines "name: value CRLF" of the keys K of h
LineBytes(h, K) ==
    IF K = {} THEN 0
    ELSE LET k == CHOOSE x \in K : TRUE
         IN  Len(k) + 2 + Len(h[k]) + 2 + LineBytes(h, K \ {k})

\* C10: serializer framing.  The argument of Write is the status line
\* (version SP status-code SP reason-phrase CRLF), then the header lines,
\* one "name: value CRLF" for each entry of the table and nothing else, each
\* starting where a line starts, then one CRLF, then the body verbatim; with
\* an empty table the status line is followed directly by CRLF and the body.
C10_Framing ==
    \A c \in Conns :
        Len(wire[c]) = 1 =>
            LET r  == res[c][1]
                w  == wire[c][1]
                sl == r.HTTPVersion \o <<SP>> \o Dec3(r.StatusCode) \o <<SP>>
                      \o r.ReasonPhrase \o CRLF
                hl == LineBytes(r.Headers, DOMAIN r.Headers)
                a  == Len(sl)
            IN  /\ Len(w) = a + hl + 2 + Len(r.Body)
                /\ SubSeq(w, 1, a) = sl
                /\ SubSeq(w, a + hl + 1, a + hl + 2) = CRLF
                /\ SubSeq(w, a + hl + 3, Len(w)) = r.Body
                /\ \A k \in DOMAIN r.Headers :
                      LET l == k \o <<":", " ">> \o r.Headers[k] \o CRLF
                      IN  \E q \in (a + 1)..(a + hl) :
                            /\ SubSeq(w, q, q + Len(l) - 1) = l
                            /\ q + Len(l) - 1 <= a + hl
                            /\ SubSeq(w, q - 2, q - 1) = CRLF
                /\ DOMAIN r.Headers = {} => w = sl \o CRLF \o r.Body

\* two header lines, a status other than the default, and a body that holds
\* a CRLF of its own, written in full
C10_Witness ==
    \E c \in Conns :
        /\ Len(wire[c]) = 1 /\ out[c] = wire[c][1]
        /\ Cardinality(DOMAIN res[c][1].Headers) = 2
        /\ res[c][1].StatusCode = 404
        /\ res[c][1].Body = <<"\r","\n","x">>

----------------------------------------------------------------------------
(* C11: the fields of a parsed request line *)

\* C11: every Request that ParseRequest returns has a non-empty method, a
\* non-empty request-target and a non-empty protocol-version
C11_FieldsNonEmpty ==
    \A c \in Conns :
        req[c] # <<>> =>
            /\ req[c][1].Method # <<>>
            /\ req[c][1].RequestURI # <<>>
            /\ req[c][1].HTTPVersion # <<>>

----------------------------------------------------------------------------
(* C12, C13: the header lines and the malformed request line *)

\* the first line of c was read whole (it ends with a newline)
FirstLineRead(c) ==
    Len(inbound[c].line) > 0 /\ inbound[c].line[Len(inbound[c].line)] = LF

\* the number of space bytes in the first line of c
Spaces(c) == Cardinality({i \in 1..Len(inbound[c].line) : inbound[c].line[i] = SP})

\* header line i of c without its surrounding white space, where its first
\* ": " stands (0 if it has none), and the text on either side of it
Trimmed(c, i) == TrimSpace(inbound[c].hdrs[i])

Colon(c, i) == Index(Trimmed(c, i), <<":", " ">>)

NameOf(c, i) == ToLower(SubSeq(Trimmed(c, i), 1, Colon(c, i) - 1))

ValueOf(c, i) == SubSeq(Trimmed(c, i), Colon(c, i) + 2, Len(Trimmed(c, i)))

\* the header lines of c that hold a ": "
Fields(c) == {i \in 1..Len(inbound[c].hdrs) : Colon(c, i) # 0}

\* C12: header-line parsing.  Once the request line of c is accepted, the
\* header lines are read up to the blank line or the end of the stream (the
\* reader stands right after the blank line, or at the end of the stream when
\* there is none, unless a body is read after it); the header table holds
\* exactly the case-folded names of the lines that contain ": "; under each
\* name it holds the whole text after the first ": " of the last line with
\* that name; a line without ": " stores nothing and fails nothing (without
\* a Content-Length in the table the request is returned).
C12_HeaderLines ==
    \A c \in Conns :
        (Parsed(c) /\ FirstLineRead(c) /\ Spaces(c) = 2) =>
            /\ plocal[c] # <<>>
            /\ LET H == plocal[c][1].Headers
               IN  /\ DOMAIN H = {NameOf(c, i) : i \in Fields(c)}
                   /\ \A i \in Fields(c) :
                        (\A j \in Fields(c) : j > i => NameOf(c, j) # NameOf(c, i))
                            => H[NameOf(c, i)] = ValueOf(c, i)
                   /\ ToLower(sContentLength) \notin DOMAIN H =>
                        /\ req[c] # <<>> /\ perr[c] = "nil"
                        /\ pos[c] = Len(inbound[c].line)
                                    + Len(Flatten(inbound[c].hdrs))
                                    + (IF inbound[c].term THEN 2
                                       ELSE Len(inbound[c].tail))

\* a request with a value that holds a second ": ", a line without ": " and
\* bytes after the blank line was parsed: the value is whole, the line is
\* skipped and the bytes are left unread
C12_Witness ==
    \E c \in Conns :
        /\ Parsed(c) /\ FirstLineRead(c) /\ Spaces(c) = 2
        /\ inbound[c].hdrs = << <<"U","s","e","r","-","A","g","e","n","t",":"," ","a",":"," ","b","\r","\n">>,
                                <<"j","u","n","k","\n">> >>
        /\ inbound[c].term /\ Len(inbound[c].tail) = MaxTail
        /\ req[c] # <<>>
        /\ DOMAIN req[c][1].Headers = {ToLower(sUserAgent)}
        /\ req[c][1].Headers[ToLower(sUserAgent)] = <<"a", ":", " ", "b">>
        /\ pos[c] = Len(Bytes(inbound[c])) - MaxTail

\* two lines spell the same name differently: the later value is stored
C12_WitnessDuplicate ==
    \E c \in Conns :
        /\ Parsed(c) /\ FirstLineRead(c) /\ Spaces(c) = 2
        /\ inbound[c].hdrs = << <<"C","o","n","t","e","n","t","-","L","e","n","g","t","h",":"," ","2","\r","\n">>,
                                <<"c","o","n","t","e","n","t","-","l","e","n","g","t","h",":"," ","0","\r","\n">> >>
        /\ req[c] # <<>>
        /\ DOMAIN req[c][1].Headers = {ToLower(sContentLength)}
        /\ req[c][1].Headers[ToLower(sContentLength)] = <<"0">>

\* C13: malformed request line.  Whenever the first line of c, read whole,
\* does not hold exactly two spaces (so that it does not split on single
\* spaces into exactly three fields), ParseRequest fails with the error
\* "invalid request line", returns no Request, has built none, has read
\* nothing after the first line, and nothing is routed or written.
C13_MalformedRequestLine ==
    \A c \in Conns :
        (Parsed(c) /\ FirstLineRead(c) /\ Spaces(c) # 2) =>
            /\ perr[c] = "invalid request line"
            /\ req[c] = <<>>
            /\ plocal[c] = <<>>
            /\ pos[c] = Len(inbound[c].line)
            /\ res[c] = <<>> /\ wire[c] = <<>> /\ out[c] = <<>>

\* a request-target with a space in it, followed by a Content-Length header
\* and body bytes, was refused and none of what follows the line was read
C13_Witness ==
    \E c \in Conns :
        /\ pc[c] = "done" /\ closed[c]
        /\ inbound[c].line = <<"G","E","T"," ","/","a"," ","b"," ","H","T","T","P","/","1",".","1","\r","\n">>
        /\ Len(inbound[c].hdrs) = MaxHeaders /\ inbound[c].term
        /\ Len(inbound[c].tail) = MaxTail
        /\ perr[c] = "invalid request line"
        /\ req[c] = <<>>
        /\ pos[c] = Len(inbound[c].line)
        /\ pos[c] < Len(Bytes(inbound[c]))

----------------------------------------------------------------------------
(* C14: status code and reason phrase *)

\* the status lines of the program
StatusPairs ==
    { <<200, sOK>>, <<201, sCreated>>, <<404, sNotFound>>,
      <<500, sInternalServerError>> }

\* C14: every Response that Route hands to handleConnection (made by
\* NewResponse and left alone, or changed by a handler or by the no-match
\* default) carries the protocol version HTTP/1.1 and a status code and a
\* reason phrase that are one of the pairs 200 OK, 201 Created,
\* 404 Not Found and 500 Internal Server Error.
C14_StatusPairs ==
    \A c \in Conns :
        res[c] # <<>> =>
            /\ res[c][1].HTTPVersion = sHTTP11
            /\ <<res[c][1].StatusCode, res[c][1].ReasonPhrase>> \in StatusPairs

\* a POST to the file route was answered by fileCreateHandler's success path
\* with 201 and Created
C14_Witness ==
    \E c \in Conns :
        /\ res[c] # <<>>
        /\ req[c][1].Method = sPOST
        /\ HasPrefix(req[c][1].RequestURI, sFilesPrefix)
        /\ res[c][1].StatusCode = 201
        /\ res[c][1].ReasonPhrase = sCreated
        /\ res[c][1].HTTPVersion = sHTTP11

----------------------------------------------------------------------------
(* C15: the echo route *)

\* the header table of the response of c holds value under name
HasHeader(c, name, value) ==
    /\ ToLower(name) \in DOMAIN res[c][1].Headers
    /\ res[c][1].Headers[ToLower(name)] = value

\* C15: echo route.  Every request whose target is "/echo/" followed by v
\* (v possibly empty, whatever the method) is answered 200 OK with body v,
\* Content-Type text/plain and a Content-Length that is the decimal number of
\* bytes of v.  (The code counts the characters of v, which are fewer than
\* its bytes when v holds a multi-byte character.)
C15_EchoRoute ==
    \A c \in Conns :
        (res[c] # <<>> /\ HasPrefix(req[c][1].RequestURI, sEchoPrefix)) =>
            LET v == SubSeq(req[c][1].RequestURI, Len(sEchoPrefix) + 1,
                            Len(req[c][1].RequestURI))
            IN  /\ res[c][1].StatusCode = 200
                /\ res[c][1].ReasonPhrase = sOK
                /\ res[c][1].Body = v
                /\ HasHeader(c, sContentType, sTextPlain)
                /\ HasHeader(c, sContentLength, Itoa(Len(v)))

----------------------------------------------------------------------------
(* C16: the outcomes of the file route *)

\* the response Route returns for c in this step has this status line
Answers(c, code, reason) ==
    /\ res'[c] # <<>>
    /\ res'[c][1].StatusCode = code
    /\ res'[c][1].ReasonPhrase = reason

\* the file the target of c names
Named(c) == Join(FILE_DIRECTORY, TrimPrefix(req[c][1].RequestURI, sFilesPrefix))

\* the step of c from "route" to "write" for a target under "/files/"
FileRouteStep(c) ==
    /\ pc[c] = "route" /\ pc'[c] = "write"
    /\ HasPrefix(req[c][1].RequestURI, sFilesPrefix)

\* C16: file route outcomes.  In the step that routes a request with target
\* "/files/" + name: a POST either is answered 201 Created with an empty
\* body, and then the named file holds exactly the request body and every
\* other file is as before, or is answered 500 Internal Server Error; any
\* other method leaves the files as they are and is answered 404 Not Found
\* when the named file does not exist, and otherwise either 200 OK with the
\* file's bytes as body and Content-Type application/octet-stream, or
\* 500 Internal Server Error.
C16_FileOutcomes ==
    [][\A c \in Conns :
         FileRouteStep(c) =>
           IF req[c][1].Method = sPOST
           THEN \/ /\ Answers(c, 201, sCreated)
                   /\ res'[c][1].Body = <<>>
                   /\ DOMAIN files' = DOMAIN files \cup {Named(c)}
                   /\ files'[Named(c)] = req[c][1].Body
                   /\ \A p \in DOMAIN files : p # Named(c) => files'[p] = files[p]
                \/ Answers(c, 500, sInternalServerError)
           ELSE /\ files' = files
                /\ IF Named(c) \notin DOMAIN files /\ Named(c) \notin Dirs(FILE_DIRECTORY)
                   THEN Answers(c, 404, sNotFound)
                   ELSE \/ /\ Answers(c, 200, sOK)
                           /\ Named(c) \in DOMAIN files
                           /\ res'[c][1].Body = files[Named(c)]
                           /\ ToLower(sContentType) \in DOMAIN res'[c][1].Headers
                           /\ res'[c][1].Headers[ToLower(sContentType)] = sOctetStream
                        \/ Answers(c, 500, sInternalServerError)
    ]_vars

\* a POST replaced the content the file had at the start with its body and
\* was answered 201
C16_Witness ==
    \E c \in Conns :
        /\ res[c] # <<>>
        /\ req[c][1].Method = sPOST
        /\ req[c][1].RequestURI = sFilesPrefix \o <<"f">>
        /\ req[c][1].Body = <<"a", "b">>
        /\ res[c][1].StatusCode = 201
        /\ files[<<"/","t","m","p","/","f">>] = <<"a", "b">>
        /\ InitFiles[<<"/","t","m","p","/","f">>] = <<"h", "i">>

----------------------------------------------------------------------------
(* C17: connections served at once *)

\* what ParseRequest makes of the bytes of c taken alone
Own(c) == ParseRequest(Bytes(inbound[c]))

\* the bytes handleConnection writes for the request r whose target is not
\* under "/files/", in one of the orders the header table may be walked in
OwnAnswers(r) ==
    LET a == Route(MainRoutes, r, InitFiles, FILE_DIRECTORY, "ok").res
    IN  {String(a, order) : order \in RangeOrders(a.Headers)}

\* C17: isolation of concurrent connections.  The outcome on a connection
\* is a function of its own bytes, whatever the other connections receive:
\* once a connection whose own bytes parse into a request with a target
\* outside "/files/" is closed, it has been parsed and exactly one write was
\* made on it, of the serialized response to that request; once a
\* connection whose own bytes fail to parse is closed, it has been parsed
\* and nothing was written on it.
C17_Isolation ==
    \A c \in Conns :
        closed[c] =>
            /\ (Own(c).ret = "ok" /\ ~HasPrefix(Own(c).req[1].RequestURI, sFilesPrefix)) =>
                    /\ req[c] = Own(c).req
                    /\ Len(wire[c]) = 1
                    /\ wire[c][1] \in OwnAnswers(Own(c).req[1])
            /\ Own(c).ret = "err" =>
                    /\ perr[c] = Own(c).err
                    /\ wire[c] = <<>>

----------------------------------------------------------------------------
(* C18: the counting convention of Content-Length *)

\* C18: every response with a non-empty body (the echo, user-agent and
\* file-read handlers are the ones that set a body) carries a Content-Length
\* that is the decimal number of bytes of that body, the bytes String() puts
\* on the wire after the blank line and the unit in which ParseRequest
\* measures a request body.  (The handlers count characters: a file stored
\* by a POST with Content-Length 2 and a two-byte character as body comes
\* back from GET with Content-Length 1.)
C18_ByteCount ==
    \A c \in Conns :
        (res[c] # <<>> /\ res[c][1].Body # <<>>) =>
            /\ ToLower(sContentLength) \in DOMAIN res[c][1].Headers
            /\ res[c][1].Headers[ToLower(sContentLength)] = Itoa(Len(res[c][1].Body))

----------------------------------------------------------------------------
(* C19: the paths of the file route *)

\* path p is the directory dir or lies below it
Inside(p, dir) == p = Clean(dir) \/ HasPrefix(p, Clean(dir) \o <<"/">>)

\* C19: file-route confinement.  Every path that fileReturnHandler hands to
\* os.ReadFile and fileCreateHandler hands to os.WriteFile is FILE_DIRECTORY
\* or a path below it, and every stored file lies below it.  (The code joins
\* the remainder of the target to the directory and cleans the result, so a
\* remainder "../x" names a path outside.)
C19_Confined ==
    /\ \A c \in Conns : \A i \in 1..Len(opened[c]) :
            Inside(opened[c][i], FILE_DIRECTORY)
    /\ \A p \in DOMAIN files : Inside(p, FILE_DIRECTORY)

====
